---- MODULE Spec2Model ----
(***************************************************************************)
(* Grid Store of the conference priority grid backend (src/app.py).        *)
(*                                                                         *)
(* State: the page_data table, its id sequence, the local variables of     *)
(* every in-flight save_data handler and the last response each client     *)
(* connection received.  One action per handler step: the steps of a       *)
(* handler between two database accesses are one action, so that the       *)
(* interleavings of concurrent requests are those the database can see.    *)
(*                                                                         *)
(* Spec: NumReqs connections send requests at any time.  SpecSeq: one      *)
(* client sends one request after the other; log keeps its last two        *)
(* exchanges.  SpecPair: two saves run concurrently to their end from any  *)
(* table; run keeps the table they began with, their bodies and the order  *)
(* of their steps.  The JSONB column keeps arrays and strings as given.    *)
(***************************************************************************)
EXTENDS Integers, Sequences, FiniteSets, TLC

(* ------------------------------ bounds -------------------------------- *)

\* number of client connections served concurrently
NumReqs == 2

\* the id sequence of page_data is not advanced past this value
MaxId == 3

Reqs == 1 .. NumReqs

(* ---------------------------- JSON values ----------------------------- *)

\* A JSON value is tagged with its Python type; only strings and lists occur
\* in the data field.  All three fields are always present so that any two
\* values can be compared.
Str(s) == [t |-> "str", s |-> s, l |-> <<>>]
List(l) == [t |-> "list", s |-> "", l |-> l]

\* isinstance(v, list)
IsList(v) == v.t = "list"

\* bool(v): a list or a string is true exactly when it is not empty
Truthy(v) == IF v.t = "list" THEN Len(v.l) > 0 ELSE v.s # ""

\* jsonify([])
EmptyList == List(<<>>)

\* [["A","B"],["C"]]: two rows of different lengths
RaggedGrid == List(<<List(<<Str("A"), Str("B")>>), List(<<Str("C")>>)>>)

\* [[]]: one row without cells; a non-empty list
OneEmptyRow == List(<<List(<<>>)>>)

\* well-formed 2D arrays
Grids == {EmptyList, RaggedGrid, OneEmptyRow}

\* "not-a-list" and [["A"], "x"]
NotAList == Str("not-a-list")
MixedRows == List(<<List(<<Str("A")>>), Str("x")>>)

DataValues == Grids \cup {NotAList, MixedRows}

Pages == {"industrial", "x"}

(* ------------------------- the page_data table ------------------------ *)

\* a row of page_data: id, page_name, data
Row(id, page_name, data) == [id |-> id, page_name |-> page_name, data |-> data]

\* Python's None where a query finds no row; ids of rows start at 1
None == Row(0, "", EmptyList)

\* .filter_by(page_name=page_name): the rows a query for page_name matches
FilterBy(tbl, page_name) == {row \in tbl : row.page_name = page_name}

\* .first(): the query has no ORDER BY, so any matching row may come first;
\* None when nothing matches
First(rows) == IF rows = {} THEN {None} ELSE rows

\* page_name declared without unique=True
NoUniqueConstraint(tbl, page_name) == FALSE

\* page_name is unique: whether rows with page_name stand in the way of
\* inserting another one
UniqueViolation(tbl, page_name) == FilterBy(tbl, page_name) # {}

\* Update with the old rows kept where the new grid has none (a merge)
UpdateMerge(tbl, record, new_data) ==
  {IF row.id = record
   THEN [row EXCEPT !.data = List(new_data.l \o SubSeq(row.data.l, Len(new_data.l) + 1,
                                                       Len(row.data.l)))]
   ELSE row : row \in tbl}

\* Update without the WHERE clause: every row gets the new grid
UpdateEveryRow(tbl, record, new_data) ==
  {[row EXCEPT !.data = new_data] : row \in tbl}

\* record.data = new_data; commit: UPDATE page_data SET data WHERE id = record.id
\* (record is held as the primary key of the row the lookup returned)
Update(tbl, record, new_data) ==
  {IF row.id = record THEN [row EXCEPT !.data = new_data] ELSE row : row \in tbl}

\* db.session.add(PageData(page_name, data)); commit: INSERT with the next id
Insert(tbl, id, page_name, new_data) == tbl \cup {Row(id, page_name, new_data)}

\* Commit that writes the grid into the row a racing insert committed
CommitUpsert(tbl, seq, record, page_name, new_data) ==
  IF record # None.id
  THEN [tbl |-> Update(tbl, record, new_data), seq |-> seq, raised |-> ""]
  ELSE IF UniqueViolation(tbl, page_name)
       THEN [tbl |-> {IF row.page_name = page_name
                      THEN [row EXCEPT !.data = new_data] ELSE row : row \in tbl},
             seq |-> seq + 1, raised |-> ""]
       ELSE [tbl |-> Insert(tbl, seq + 1, page_name, new_data), seq |-> seq + 1,
             raised |-> ""]

\* The flush and commit of save_data for a handler whose lookup returned
\* record: the table and the id sequence afterwards, and the exception
\* raised ("" for none).  The sequence advances also when the insert fails.
Commit(tbl, seq, record, page_name, new_data) ==
  IF record # None.id
  THEN [tbl |-> Update(tbl, record, new_data), seq |-> seq, raised |-> ""]
  ELSE IF UniqueViolation(tbl, page_name)
       THEN [tbl |-> tbl, seq |-> seq + 1, raised |-> "IntegrityError"]
       ELSE [tbl |-> Insert(tbl, seq + 1, page_name, new_data), seq |-> seq + 1,
             raised |-> ""]

(* --------------------------- request bodies --------------------------- *)

\* What request.get_json(silent=True) returns.  kind is the Python type of
\* the parsed body ("none" for an absent or unparsable one), falsy is
\* `not payload`, keys is the set of x among "page", "data" with `x in
\* payload` (keys of an object, elements of an array, substrings of a
\* string), page and data are payload["page"] and payload["data"] of an
\* object.
Payload(kind, falsy, keys, page, data) ==
  [kind |-> kind, falsy |-> falsy, keys |-> keys, page |-> page, data |-> data]

NoBody == Payload("none", TRUE, {}, "", EmptyList)
EmptyObject == Payload("object", TRUE, {}, "", EmptyList)
OnlyPage(page) == Payload("object", FALSE, {"page"}, page, EmptyList)
OnlyData(data) == Payload("object", FALSE, {"data"}, "", data)
Object(page, data) == Payload("object", FALSE, {"page", "data"}, page, data)
\* 5, 0, true, "page data", ["page", "data"], ["x"]
Number5 == Payload("number", FALSE, {}, "", EmptyList)
Number0 == Payload("number", TRUE, {}, "", EmptyList)
BoolTrue == Payload("bool", FALSE, {}, "", EmptyList)
StringBody == Payload("string", FALSE, {"page", "data"}, "", EmptyList)
ArrayBody == Payload("array", FALSE, {"page", "data"}, "", EmptyList)
ArrayOther == Payload("array", FALSE, {}, "", EmptyList)

\* the requests of concurrent clients: a subset of Payloads
SomePayloads ==
  {NoBody, Object("x", NotAList)}
  \cup {Object(p, d) : p \in Pages, d \in {EmptyList, RaggedGrid}}

Payloads ==
  {NoBody, EmptyObject, Number5, Number0, BoolTrue, StringBody, ArrayBody,
   ArrayOther}
  \cup {OnlyPage(p) : p \in Pages} \cup {OnlyData(d) : d \in Grids}
  \cup {Object(p, d) : p \in Pages, d \in DataValues}

\* `x in payload` raises TypeError for a number or a boolean
SupportsIn(payload) == payload.kind \in {"object", "array", "string"}

\* payload["page"] raises TypeError unless payload is an object
SupportsGetItem(payload) == payload.kind = "object"

(* ------------------------------ responses ----------------------------- *)

MsgMissing == "Missing 'page' or 'data' in request body"
MsgNotList == "data must be a list (2D array)"
MsgNotListOfLists == "data must be list of lists"
MsgIntegrity == "Database integrity error (possible duplicate page_name)"
MsgServerError == "Server error: "

\* A response: status code, kind of body ("object" or "array" for JSON,
\* "html" for Flask's own error page), the fields of a JSON object, its
\* status and message, the JSON array of a load.
Response(code, kind, fields, status, message, body) ==
  [code |-> code, kind |-> kind, fields |-> fields, status |-> status,
   message |-> message, body |-> body]

NoResponse == Response(0, "none", {}, "", "", EmptyList)

\* jsonify({"status": "success"})
Success == Response(200, "object", {"status"}, "success", "", EmptyList)

\* an error body that carries the message alone
ErrorWithoutStatus(code, message) ==
  Response(code, "object", {"message"}, "", message, EmptyList)

\* jsonify({"status": "error", "message": message}), code
Error(code, message) ==
  Response(code, "object", {"status", "message"}, "error", message, EmptyList)

\* jsonify(body) of load_data
Array(body) == Response(200, "array", {}, "", "", body)

\* an exception that leaves load_data: Flask answers with its HTML error page
InternalServerError == Response(500, "html", {}, "", "", EmptyList)

\* Validate without the check of the rows
ValidateListOnly(payload) ==
  IF payload.kind = "none" \/ payload.falsy
  THEN [code |-> 400, message |-> MsgMissing]
  ELSE IF ~SupportsIn(payload)
  THEN [code |-> 500, message |-> MsgServerError]
  ELSE IF "page" \notin payload.keys \/ "data" \notin payload.keys
  THEN [code |-> 400, message |-> MsgMissing]
  ELSE IF ~SupportsGetItem(payload)
  THEN [code |-> 500, message |-> MsgServerError]
  ELSE IF ~IsList(payload.data)
  THEN [code |-> 400, message |-> MsgNotList]
  ELSE [code |-> 200, message |-> ""]

\* The checks of save_data before the first database access: code 200 when
\* the handler goes on to the lookup, otherwise the status code and message
\* of the response.  A TypeError is caught by `except Exception`.
Validate(payload) ==
  IF payload.kind = "none" \/ payload.falsy
  THEN [code |-> 400, message |-> MsgMissing]
  ELSE IF ~SupportsIn(payload)
  THEN [code |-> 500, message |-> MsgServerError]
  ELSE IF "page" \notin payload.keys \/ "data" \notin payload.keys
  THEN [code |-> 400, message |-> MsgMissing]
  ELSE IF ~SupportsGetItem(payload)
  THEN [code |-> 500, message |-> MsgServerError]
  ELSE IF ~IsList(payload.data)
  THEN [code |-> 400, message |-> MsgNotList]
  ELSE IF Len(payload.data.l) > 0
          /\ ~(\A i \in 1 .. Len(payload.data.l) : IsList(payload.data.l[i]))
  THEN [code |-> 400, message |-> MsgNotListOfLists]
  ELSE [code |-> 200, message |-> ""]

\* LoadBody that takes a grid without cells for an empty one
LoadBodyCells(record) ==
  IF record # None /\ (\E i \in 1 .. Len(record.data.l) : Truthy(record.data.l[i]))
  THEN record.data
  ELSE EmptyList

\* the body load_data returns for the record its query found
LoadBody(record) ==
  IF record # None /\ Truthy(record.data) THEN record.data ELSE EmptyList

(* -------------------------------- state ------------------------------- *)

VARIABLES
  page_data,   \* the rows of table page_data
  id_seq,      \* last value of the sequence behind page_data.id
  req,         \* per connection: the save_data handler in flight
  resp,        \* per connection: the last response received
  log,         \* history: the last two exchanges of a sequential client
  run          \* history: a run of two concurrent saves

vars == <<page_data, id_seq, req, resp, log, run>>

\* locals of a save_data handler; pc is the database access it makes next,
\* record the primary key of the row its lookup returned (None.id for None)
Handler(pc, page_name, new_data, record) ==
  [pc |-> pc, page_name |-> page_name, new_data |-> new_data, record |-> record]

Idle == Handler("idle", "", EmptyList, None.id)

(* ------------------------------- actions ------------------------------ *)

\* load_data that stores a grid for a page it does not find (auto-create)
LoadDataAutoCreate(r, page_name, fault) ==
  /\ req[r].pc = "idle"
  /\ IF fault
     THEN /\ resp' = [resp EXCEPT ![r] = InternalServerError]
          /\ UNCHANGED <<page_data, id_seq>>
     ELSE \E record \in First(FilterBy(page_data, page_name)) :
            /\ resp' = [resp EXCEPT ![r] = Array(LoadBody(record))]
            /\ IF record = None /\ id_seq < MaxId
               THEN /\ page_data' = Insert(page_data, id_seq + 1, page_name, EmptyList)
                    /\ id_seq' = id_seq + 1
               ELSE UNCHANGED <<page_data, id_seq>>
  /\ UNCHANGED req

\* GET /load_data/<page_name>: the whole handler.  fault: the query raises
\* (the database is unreachable); load_data has no try block.
LoadData(r, page_name, fault) ==
  /\ req[r].pc = "idle"
  /\ IF fault
     THEN resp' = [resp EXCEPT ![r] = InternalServerError]
     ELSE \E record \in First(FilterBy(page_data, page_name)) :
            resp' = [resp EXCEPT ![r] = Array(LoadBody(record))]
  /\ UNCHANGED <<page_data, id_seq, req>>

\* POST /save_data, up to the lookup: get_json and the validation
SaveBegin(r, payload) ==
  /\ req[r].pc = "idle"
  /\ LET v == Validate(payload) IN
       IF v.code = 200
       THEN /\ req' = [req EXCEPT ![r] =
                         Handler("lookup", payload.page, payload.data, None.id)]
            /\ resp' = [resp EXCEPT ![r] = NoResponse]
       ELSE /\ resp' = [resp EXCEPT ![r] = Error(v.code, v.message)]
            /\ UNCHANGED req
  /\ UNCHANGED <<page_data, id_seq>>

\* record = db.session.query(PageData).filter_by(page_name=page_name).first()
\* fault: the query raises; `except Exception` rolls back and answers 500
SaveLookup(r, fault) ==
  /\ req[r].pc = "lookup"
  /\ IF fault
     THEN /\ resp' = [resp EXCEPT ![r] = Error(500, MsgServerError)]
          /\ req' = [req EXCEPT ![r] = Idle]
     ELSE /\ \E record \in First(FilterBy(page_data, req[r].page_name)) :
               req' = [req EXCEPT ![r].pc = "commit", ![r].record = record.id]
          /\ UNCHANGED resp
  /\ UNCHANGED <<page_data, id_seq>>

\* the assignment or add, db.session.commit() and the response; the except
\* clauses roll back, which leaves the table as it was
SaveCommit(r, fault) ==
  /\ req[r].pc = "commit"
  /\ LET h == req[r]
         c == Commit(page_data, id_seq, h.record, h.page_name, h.new_data)
     IN IF fault
        THEN /\ resp' = [resp EXCEPT ![r] = Error(500, MsgServerError)]
             /\ UNCHANGED <<page_data, id_seq>>
        ELSE /\ c.seq <= MaxId
             /\ id_seq' = c.seq
             /\ IF c.raised = "IntegrityError"
                THEN /\ resp' = [resp EXCEPT ![r] = Error(500, MsgIntegrity)]
                     /\ UNCHANGED page_data
                ELSE /\ resp' = [resp EXCEPT ![r] = Success]
                     /\ page_data' = c.tbl
  /\ req' = [req EXCEPT ![r] = Idle]

(* ------------- NumReqs connections, requests at any time --------------- *)

\* an exchange of a client: the request and the response it got
Exchange(op, page_name, payload, response) ==
  [op |-> op, page_name |-> page_name, payload |-> payload, response |-> response]

NoExchange == Exchange("none", "", NoBody, NoResponse)
NoLog == [prev |-> NoExchange, last |-> NoExchange]
NoRun == [table0 |-> {}, plan |-> <<>>, steps |-> <<>>]

Init ==
  /\ page_data = {}
  /\ id_seq = 0
  /\ req = [r \in Reqs |-> Idle]
  /\ resp = [r \in Reqs |-> NoResponse]
  /\ log = NoLog
  /\ run = NoRun

DoLoad == \E r \in Reqs, page_name \in Pages, fault \in BOOLEAN :
            LoadData(r, page_name, fault) /\ UNCHANGED <<log, run>>

DoBegin == \E r \in Reqs, payload \in SomePayloads :
             SaveBegin(r, payload) /\ UNCHANGED <<log, run>>

DoLookup == \E r \in Reqs, fault \in BOOLEAN :
              SaveLookup(r, fault) /\ UNCHANGED <<log, run>>

DoCommit == \E r \in Reqs, fault \in BOOLEAN :
              SaveCommit(r, fault) /\ UNCHANGED <<log, run>>

Next == DoLoad \/ DoBegin \/ DoLookup \/ DoCommit

Spec == Init /\ [][Next]_vars

(* ------------- one client, one request after the other ---------------- *)

\* the connection of the sequential client
Client == CHOOSE r \in Reqs : \A q \in Reqs : r <= q

Push(l, exchange) == [prev |-> l.last, last |-> exchange]

\* the log after a step of the client's handler: the exchange is added when
\* the step ends the handler (it answered)
Logged(op, page_name, payload) ==
  IF req'[Client].pc = "idle"
  THEN Push(log, Exchange(op, page_name, payload, resp'[Client]))
  ELSE log

SeqLoad == \E page_name \in Pages, fault \in BOOLEAN :
             /\ LoadData(Client, page_name, fault)
             /\ log' = Logged("load", page_name, NoBody)
             /\ UNCHANGED run

SeqBegin == \E payload \in Payloads :
              /\ SaveBegin(Client, payload)
              /\ log' = Logged("save", "", payload)
              /\ UNCHANGED run

SeqLookup == \E fault \in BOOLEAN :
               /\ SaveLookup(Client, fault)
               /\ log' = Logged("save", "",
                                Object(req[Client].page_name, req[Client].new_data))
               /\ UNCHANGED run

SeqCommit == \E fault \in BOOLEAN :
               /\ SaveCommit(Client, fault)
               /\ log' = Logged("save", "",
                                Object(req[Client].page_name, req[Client].new_data))
               /\ UNCHANGED run

NextSeq == SeqLoad \/ SeqBegin \/ SeqLookup \/ SeqCommit

SpecSeq == Init /\ [][NextSeq]_vars

(* ---------- two concurrent saves, from any table, to the end ---------- *)

\* the tables the program can hold: one row per page at most, ids 1, 2, ...
Tables0 ==
  {{}} \cup {{Row(1, p, d)} : p \in Pages, d \in Grids}
  \cup {{Row(1, p, d), Row(2, q, e)} : <<p, q>> \in {pq \in Pages \X Pages : pq[1] # pq[2]},
                                       <<d, e>> \in Grids \X Grids}

\* the requests that pass the validation
ValidSaves == {Object(p, d) : p \in Pages, d \in Grids}

\* the two connections of the run
Pair == {Client, Client + 1}

InitPair ==
  \E tbl \in Tables0, plan \in [Pair -> ValidSaves] :
    /\ page_data = tbl
    /\ id_seq = Cardinality(tbl)
    /\ req = [r \in Reqs |->
                IF r \in Pair
                THEN Handler("lookup", plan[r].page, plan[r].data, None.id)
                ELSE Idle]
    /\ resp = [r \in Reqs |-> NoResponse]
    /\ log = NoLog
    /\ run = [table0 |-> tbl, plan |-> plan, steps |-> <<>>]

Step(r, pc, fault) == [r |-> r, pc |-> pc, fault |-> fault]

PairLookup == \E r \in Pair, fault \in BOOLEAN :
                /\ SaveLookup(r, fault)
                /\ run' = [run EXCEPT !.steps = Append(@, Step(r, "lookup", fault))]
                /\ UNCHANGED log

PairCommit == \E r \in Pair, fault \in BOOLEAN :
                /\ SaveCommit(r, fault)
                /\ run' = [run EXCEPT !.steps = Append(@, Step(r, "commit", fault))]
                /\ UNCHANGED log

NextPair == PairLookup \/ PairCommit

SpecPair == InitPair /\ [][NextPair]_vars

(* ======================= the sequential client ======================== *)

\* the rows of page_name hold exactly the grid data, in one row
HoldsExactly(tbl, page_name, data) ==
  /\ Cardinality(FilterBy(tbl, page_name)) = 1
  /\ \A row \in FilterBy(tbl, page_name) : row.data = data

\* exchange is a save with this body that was answered "success"
SavedOk(exchange, payload) ==
  exchange.op = "save" /\ exchange.payload = payload /\ exchange.response = Success

\* exchange is a load of page_name whose query did not raise
Loaded(exchange, page_name) ==
  /\ exchange.op = "load"
  /\ exchange.page_name = page_name
  /\ exchange.response # InternalServerError

\* C1: a successful Save(page_name, data) followed by a Load(page_name), with
\* no Save in between, returns exactly data: a JSON array equal to data, for
\* every page and every well-formed grid (empty list and ragged rows too).
C1_RoundTrip ==
  \A p \in Pages, d \in Grids :
    SavedOk(log.prev, Object(p, d)) /\ Loaded(log.last, p)
      => log.last.response = Array(d)

C1_Witness ==
  \E p \in Pages :
    /\ SavedOk(log.prev, Object(p, RaggedGrid))
    /\ Loaded(log.last, p)
    /\ log.last.response.body = RaggedGrid

\* the data field of the body is not a list, or a non-empty list with an
\* element that is not a list
BadShape(payload) ==
  /\ payload.kind = "object"
  /\ {"page", "data"} \subseteq payload.keys
  /\ \/ payload.data.t # "list"
     \/ \E i \in 1 .. Len(payload.data.l) : payload.data.l[i].t # "list"

\* C2: a Save whose data is not a list, or holds an element that is not a
\* list, is answered 400 with status "error", and the step that answers it
\* leaves every row of the table as it was.
C2_BadShapeRejected ==
  /\ [](log.last.op = "save" /\ BadShape(log.last.payload)
          => /\ log.last.response.code = 400
             /\ log.last.response.status = "error")
  /\ [][\A payload \in Payloads :
          SaveBegin(Client, payload) /\ BadShape(payload)
            => page_data' = page_data /\ req'[Client].pc = "idle"]_vars

C2_Witness ==
  /\ log.last.op = "save"
  /\ log.last.payload = Object("x", MixedRows)
  /\ log.last.response = Error(400, MsgNotListOfLists)
  /\ SavedOk(log.prev, Object("x", RaggedGrid))
  /\ HoldsExactly(page_data, "x", RaggedGrid)

\* the body has no page field or no data field
MissingField(payload) ==
  ~(payload.kind = "object" /\ {"page", "data"} \subseteq payload.keys)

\* C3: a Save whose body lacks the page or the data field (an absent,
\* unparsable or empty body included) is answered 400.  (Such a request
\* ends in SaveBegin, which makes no lookup and no write.)
C3_MissingFieldRejected ==
  log.last.op = "save" /\ MissingField(log.last.payload)
    => log.last.response.code = 400

\* C4: after two successful Saves to one page, d1 then d2, the table holds
\* exactly one row for the page and its grid is d2: nothing of d1 is left.
C4_FullOverwrite ==
  \A p \in Pages, d1 \in Grids, d2 \in Grids :
    SavedOk(log.prev, Object(p, d1)) /\ SavedOk(log.last, Object(p, d2))
      => HoldsExactly(page_data, p, d2)

\* d2 has fewer rows than d1, and shorter ones
C4_Witness ==
  \E p \in Pages :
    /\ SavedOk(log.prev, Object(p, RaggedGrid))
    /\ SavedOk(log.last, Object(p, OneEmptyRow))
    /\ HoldsExactly(page_data, p, OneEmptyRow)

\* what a load of page_name may return from tbl: the stored grid when a row
\* exists and its grid is not empty, the empty list otherwise
Stored(tbl, page_name) ==
  IF \E row \in FilterBy(tbl, page_name) : row.data # EmptyList
  THEN {row.data : row \in {x \in FilterBy(tbl, page_name) : x.data # EmptyList}}
  ELSE {EmptyList}

\* C5: a Load never changes the table (reading a page never seen creates no
\* row), and it answers 200 with the stored grid when a row exists and its
\* grid is not empty, and with the empty list otherwise.
C5_LoadReadOnly ==
  /\ [](\A p \in Pages :
          Loaded(log.last, p)
            => /\ log.last.response.code = 200
               /\ log.last.response.kind = "array"
               /\ log.last.response.body \in Stored(page_data, p))
  /\ [][SeqLoad => page_data' = page_data /\ id_seq' = id_seq]_vars

\* a page never saved is loaded: the empty list, and still no row
C5_Witness ==
  \E p \in Pages :
    /\ Loaded(log.last, p)
    /\ log.last.response = Array(EmptyList)
    /\ FilterBy(page_data, p) = {}
    /\ page_data # {}

\* C6: every failure raised while a request is handled, by a Load as by a
\* Save, is answered as a JSON object with a status field and code 500.
C6_FailuresAnsweredAsJson ==
  log.last.response.code = 500
    => /\ log.last.response.kind = "object"
       /\ "status" \in log.last.response.fields

\* C7, as claimed: every response, of Load and of Save, is a JSON object
\* with a status field.
C7_EveryResponseHasStatus ==
  log.last.op # "none"
    => /\ log.last.response.kind = "object"
       /\ "status" \in log.last.response.fields

\* C7, amended: every response to a Save is a JSON object with a status
\* field; the response of a Load that completes is a bare JSON array.
C7_SaveResponsesHaveStatus ==
  /\ log.last.op = "save"
       => /\ log.last.response.kind = "object"
          /\ "status" \in log.last.response.fields
          /\ log.last.response.status \in {"success", "error"}
  /\ log.last.op = "load" /\ log.last.response.code = 200
       => log.last.response.kind = "array"

C7_Witness ==
  /\ log.prev.op = "save"
  /\ log.prev.response = Error(500, MsgServerError)
  /\ log.last.op = "load"
  /\ log.last.response.kind = "array"

(* ====================== concurrent connections ======================== *)

\* C8: in every reachable state, whatever the interleaving of the lookups
\* and commits of concurrent requests, the table holds at most one row per
\* page_name.
C8_OneRowPerPage ==
  \A p \in Pages : Cardinality(FilterBy(page_data, p)) <= 1

\* an insert lost a race against another connection's insert
C8_Witness ==
  \E r \in Reqs, q \in Reqs :
    /\ r # q
    /\ resp[r] = Success
    /\ resp[q] = Error(500, MsgIntegrity)
    /\ \A p \in Pages : Cardinality(FilterBy(page_data, p)) = 1

(* ======================== two concurrent saves ======================== *)

\* both handlers of the run have answered
Done == \A r \in Pair : req[r].pc = "idle" /\ resp[r] # NoResponse

\* no step of the run met a database fault
NoFault == \A i \in 1 .. Len(run.steps) : ~run.steps[i].fault

\* both lookups of the run came before both commits
LookupsFirst ==
  /\ Len(run.steps) = 2 * Cardinality(Pair)
  /\ \A i \in 1 .. Cardinality(Pair) : run.steps[i].pc = "lookup"

\* the connection whose commit came first, and the other one
Winner == run.steps[Cardinality(Pair) + 1].r
Loser == run.steps[2 * Cardinality(Pair)].r

\* both saves of the run name page_name, which had no row when they began
RaceFor(page_name) ==
  /\ \A r \in Pair : run.plan[r].page = page_name
  /\ FilterBy(run.table0, page_name) = {}

\* C9: when two concurrent Saves to one page never saved both look up before
\* either commits, exactly one commit succeeds; the other gets the
\* uniqueness conflict, answers 500 with status "error", ends there (no
\* retry), and the page's grid is the winner's payload.
C9_RaceOutcome ==
  \A p \in Pages :
    Done /\ NoFault /\ LookupsFirst /\ RaceFor(p)
      => /\ resp[Winner] = Success
         /\ resp[Loser].code = 500
         /\ resp[Loser].status = "error"
         /\ resp[Loser].message = MsgIntegrity
         /\ HoldsExactly(page_data, p, run.plan[Winner].data)

C9_Witness ==
  \E p \in Pages :
    /\ Done /\ NoFault /\ LookupsFirst /\ RaceFor(p)
    /\ run.plan[Winner].data # run.plan[Loser].data
    /\ HoldsExactly(page_data, p, run.plan[Winner].data)

\* what the table holds: the grid of each stored page
Content(tbl) == {[page_name |-> row.page_name, data |-> row.data] : row \in tbl}

\* save_data run alone on tbl with a valid body: the table afterwards
SaveAlone(tbl, payload) ==
  LET record == CHOOSE row \in First(FilterBy(tbl, payload.page)) : TRUE
  IN Commit(tbl, Cardinality(tbl), record.id, payload.page, payload.data).tbl

\* the two saves of the run, one after the other, starting with r
InOrder(r) ==
  LET other == CHOOSE q \in Pair : q # r
  IN SaveAlone(SaveAlone(run.table0, run.plan[r]), run.plan[other])

\* the two saves of the run name different pages
DistinctPages == \A r \in Pair, q \in Pair : r # q => run.plan[r].page # run.plan[q].page

\* C10: a Save to page p, whether it succeeds or fails, leaves the rows of
\* every other page as they were; and two concurrent Saves to different
\* pages, however their steps interleave, both succeed and leave the table
\* holding what running them one after the other, in either order, leaves.
C10_Independent ==
  /\ [](Done /\ NoFault /\ DistinctPages
          => /\ \A r \in Pair : resp[r] = Success
             /\ \A r \in Pair : Content(page_data) = Content(InOrder(r)))
  /\ [][\A r \in Pair :
          req'[r] # req[r]
            => \A q \in Pages \ {req[r].page_name} :
                 FilterBy(page_data', q) = FilterBy(page_data, q)]_vars

\* the steps of the two saves were interleaved, and both wrote
C10_Witness ==
  /\ Done /\ NoFault /\ DistinctPages /\ LookupsFirst
  /\ run.table0 # {}
  /\ \A r \in Pair : resp[r] = Success
  /\ Content(page_data) # Content(run.table0)

====
